---- MODULE Spec2Model ----
(***************************************************************************)
(* A model of leviso-elf: the readelf output parser, the dependency        *)
(* extractor, the transitive closure builder, the library path resolver    *)
(* and the relocating copier.                                              *)
(*                                                                         *)
(* Text is modelled as Rust models it: a string is a sequence of symbols.  *)
(* A symbol is a coarse "character": a whole marker such as "(NEEDED)", a  *)
(* path segment such as "lib64", or a separator such as "/".  Every string *)
(* operation of the source (contains, find, slicing, lines, trim, join,    *)
(* parent, file_name) is defined on these sequences as std defines it on   *)
(* characters.                                                             *)
(***************************************************************************)
EXTENDS Integers, Sequences, FiniteSets, TLC

VARIABLES
    fs,           \* the file system: absolute path text -> entry
    pc,           \* where the running operation stands
    args,         \* the arguments of the running operation
    ret,          \* what the operation returned (NoRet while it runs)
    hist,         \* the trace of the calls made so far (history, not program state)
    rest,         \* parse_readelf_output: the lines() iterator, lines not yet read
    libs,         \* parse_readelf_output: the Vec being built
    all_libs,     \* get_all_dependencies: the HashSet of names
    to_process,   \* get_all_dependencies: the worklist Vec (top is the last element)
    processed     \* get_all_dependencies: the HashSet of paths

vars == <<fs, pc, args, ret, hist, rest, libs, all_libs, to_process, processed>>

\* The value of a variable an operation does not use.
Unused == "unused"
NoRet == [tag |-> "running"]

-----------------------------------------------------------------------------
(* Strings                                                                 *)

\* str::find(char): the 1-based index of the first occurrence, 0 for None.
Find(s, c) ==
    IF \E i \in 1..Len(s) : s[i] = c
    THEN CHOOSE i \in 1..Len(s) : s[i] = c /\ \A j \in 1..(i - 1) : s[j] # c
    ELSE 0

\* str::contains(&str)
Contains(s, pat) ==
    \E i \in 0..(Len(s) - Len(pat)) : SubSeq(s, i + 1, i + Len(pat)) = pat

\* str::lines(): split at "\n"; a final empty line is not produced.
RECURSIVE Lines(_)
Lines(s) ==
    IF s = <<>> THEN <<>>
    ELSE LET i == Find(s, "\n")
         IN  IF i = 0 THEN <<s>>
             ELSE <<SubSeq(s, 1, i - 1)>> \o Lines(SubSeq(s, i + 1, Len(s)))

IsWhitespace(c) == c \in {" ", "\n"}

\* str::trim(): leading and trailing whitespace removed.
RECURSIVE TrimStart(_)
TrimStart(s) ==
    IF s # <<>> /\ IsWhitespace(Head(s)) THEN TrimStart(Tail(s)) ELSE s

RECURSIVE TrimEnd(_)
TrimEnd(s) ==
    IF s # <<>> /\ IsWhitespace(s[Len(s)]) THEN TrimEnd(SubSeq(s, 1, Len(s) - 1)) ELSE s

Trim(s) == TrimEnd(TrimStart(s))

\* All strings over an alphabet, up to a length.
StringsUpTo(alphabet, n) == UNION {[1..k -> alphabet] : k \in 0..n}

-----------------------------------------------------------------------------
(* Paths                                                                   *)

Sep == "/"

\* Path text from its segments: RelPath(<<"usr", "lib64">>) is usr/lib64.
RECURSIVE RelPath(_)
RelPath(segs) ==
    IF Len(segs) <= 1 THEN segs
    ELSE <<Head(segs), Sep>> \o RelPath(Tail(segs))

AbsPath(segs) == <<Sep>> \o RelPath(segs)

\* Path::is_absolute / is_relative
IsAbsolute(p) == p # <<>> /\ p[1] = Sep
IsRelative(p) == ~IsAbsolute(p)

\* Path::join: an absolute argument replaces the base.
Join(base, p) ==
    IF IsAbsolute(p) THEN p
    ELSE IF base = <<>> \/ base[Len(base)] = Sep THEN base \o p
    ELSE base \o <<Sep>> \o p

LastSep(p) ==
    IF Find(p, Sep) = 0 THEN 0
    ELSE CHOOSE i \in 1..Len(p) : p[i] = Sep /\ \A j \in (i + 1)..Len(p) : p[j] # Sep

\* Path::parent and Path::file_name, of a path without "." and ".." segments
Parent(p) ==
    LET i == LastSep(p)
    IN  IF i = 0 THEN <<>> ELSE IF i = 1 THEN <<Sep>> ELSE SubSeq(p, 1, i - 1)

FileName(p) == SubSeq(p, LastSep(p) + 1, Len(p))

\* str::trim_start_matches('/')
RECURSIVE TrimStartSep(_)
TrimStartSep(s) == IF s # <<>> /\ Head(s) = Sep THEN TrimStartSep(Tail(s)) ELSE s

-----------------------------------------------------------------------------
(* The file system.  fs maps the absolute path of every existing entry to  *)
(* the entry: a directory, a regular file with its data, or a symbolic     *)
(* link with its target text.  Trees have no symbolic links to or inside   *)
(* directory chains other than the final segment's.                        *)

DirEntry == [kind |-> "dir"]
FileEntry(d) == [kind |-> "file", data |-> d]
SymlinkEntry(t) == [kind |-> "symlink", target |-> t]

\* Option<PathBuf>::None, and the result of a failed path resolution
None == <<>>

\* Where the OS ends when it opens p, following symbolic links (a loop of links is
\* ELOOP: no entry).
RECURSIVE ResolveFrom(_, _, _)
ResolveFrom(f, p, seen) ==
    IF p \notin DOMAIN f \/ p \in seen THEN None
    ELSE IF f[p].kind = "symlink"
         THEN ResolveFrom(f, Join(Parent(p), f[p].target), seen \cup {p})
         ELSE p

Resolve(f, p) == ResolveFrom(f, p, {})

\* Path::exists, Path::is_symlink, Path::is_dir
Exists(f, p) == Resolve(f, p) # None
IsSymlink(f, p) == p \in DOMAIN f /\ f[p].kind = "symlink"
IsDir(f, p) == Exists(f, p) /\ f[Resolve(f, p)].kind = "dir"

\* A function from a set of pairs <<path, entry>>; the empty file system is <<>>.
FsOf(pairs) == [p \in {x[1] : x \in pairs} |-> (CHOOSE x \in pairs : x[1] = p)[2]]

\* The union of two file systems with disjoint paths.
Overlay(f, g) == [p \in DOMAIN f \cup DOMAIN g |-> IF p \in DOMAIN f THEN f[p] ELSE g[p]]

-----------------------------------------------------------------------------
(* find_library                                                            *)

Min(S) == CHOOSE x \in S : \A y \in S : x <= y

\* (mutant) the caller's extra paths searched before the standard places
CandidatesExtrasFirst(source_root, lib_name, extra_paths) ==
    [i \in 1..Len(extra_paths) |-> Join(Join(source_root, extra_paths[i]), lib_name)]
    \o << Join(Join(source_root, RelPath(<<"usr", "lib64">>)), lib_name),
          Join(Join(source_root, RelPath(<<"lib64">>)), lib_name),
          Join(Join(source_root, RelPath(<<"usr", "lib">>)), lib_name),
          Join(Join(source_root, RelPath(<<"lib">>)), lib_name),
          Join(Join(source_root, RelPath(<<"usr", "lib64", "systemd">>)), lib_name),
          Join(Join(source_root, RelPath(<<"usr", "lib", "systemd">>)), lib_name) >>

\* The candidates vec: the six standard places, then the caller's extra paths.
Candidates(source_root, lib_name, extra_paths) ==
    << Join(Join(source_root, RelPath(<<"usr", "lib64">>)), lib_name),
       Join(Join(source_root, RelPath(<<"lib64">>)), lib_name),
       Join(Join(source_root, RelPath(<<"usr", "lib">>)), lib_name),
       Join(Join(source_root, RelPath(<<"lib">>)), lib_name),
       Join(Join(source_root, RelPath(<<"usr", "lib64", "systemd">>)), lib_name),
       Join(Join(source_root, RelPath(<<"usr", "lib", "systemd">>)), lib_name) >>
    \o [i \in 1..Len(extra_paths) |-> Join(Join(source_root, extra_paths[i]), lib_name)]

\* candidates.into_iter().find(|p| p.exists() || p.is_symlink())
find_library(f, source_root, lib_name, extra_paths) ==
    LET c == Candidates(source_root, lib_name, extra_paths)
        hits == {i \in 1..Len(c) : Exists(f, c[i]) \/ IsSymlink(f, c[i])}
    IN  IF hits = {} THEN None ELSE c[Min(hits)]

-----------------------------------------------------------------------------
(* parse_readelf_output                                                    *)

NEEDED == "(NEEDED)"
SHLIB == "Shared library:"

\* One iteration's effect on the Vec, or a panic: the slice &line[start + 1..end]
\* panics when start + 1 > end.
ParsedLine(line) ==
    IF Contains(line, <<NEEDED>>) /\ Contains(line, <<SHLIB>>)
    THEN LET start == Find(line, "[")
             end == Find(line, "]")
         IN  IF start # 0 /\ end # 0
             THEN IF start > end
                  THEN [tag |-> "panic"]
                  ELSE [tag |-> "push", lib_name |-> SubSeq(line, start + 1, end - 1)]
             ELSE [tag |-> "skip"]
    ELSE [tag |-> "skip"]

\* The whole function, as get_library_dependencies calls it.
RECURSIVE ParseLines(_, _)
ParseLines(lines, acc) ==
    IF lines = <<>> THEN [tag |-> "Ok", val |-> acc]
    ELSE LET p == ParsedLine(Head(lines))
         IN  CASE p.tag = "panic" -> [tag |-> "panic"]
               [] p.tag = "push" -> ParseLines(Tail(lines), Append(acc, p.lib_name))
               [] OTHER -> ParseLines(Tail(lines), acc)

parse_readelf_output(output) == ParseLines(Lines(output), <<>>)

\* The inputs of the parser's specification.
MaxOutputLen == 5
ParseAlphabet == {NEEDED, SHLIB, "[", "]", "x", "\n"}

ParseInit ==
    /\ args \in {[output |-> o] : o \in StringsUpTo(ParseAlphabet, MaxOutputLen)}
    /\ pc = "parse_start"
    /\ ret = NoRet
    /\ rest = <<>>
    /\ libs = <<>>
    /\ fs = Unused /\ hist = Unused
    /\ all_libs = Unused /\ to_process = Unused /\ processed = Unused

\* let mut libs = Vec::new(); for line in output.lines()
ParseBegin ==
    /\ pc = "parse_start"
    /\ rest' = Lines(args.output)
    /\ libs' = <<>>
    /\ pc' = "parse_loop"
    /\ UNCHANGED <<fs, args, ret, hist, all_libs, to_process, processed>>

\* One iteration of the for loop.
ParseLine ==
    /\ pc = "parse_loop"
    /\ rest # <<>>
    /\ LET p == ParsedLine(Head(rest))
       IN  /\ rest' = Tail(rest)
           /\ libs' = IF p.tag = "push" THEN Append(libs, p.lib_name) ELSE libs
           /\ pc' = IF p.tag = "panic" THEN "parse_panicked" ELSE "parse_loop"
           /\ ret' = IF p.tag = "panic" THEN [tag |-> "panic"] ELSE ret
    /\ UNCHANGED <<fs, args, hist, all_libs, to_process, processed>>

\* Ok(libs)
ParseReturn ==
    /\ pc = "parse_loop"
    /\ rest = <<>>
    /\ pc' = "parse_done"
    /\ ret' = [tag |-> "Ok", val |-> libs]
    /\ UNCHANGED <<fs, args, hist, rest, libs, all_libs, to_process, processed>>

ParseNext == ParseBegin \/ ParseLine \/ ParseReturn

SpecParse == ParseInit /\ [][ParseNext]_vars

\* What the claim says the parser returns: per line in order, for a line with both
\* markers, the text strictly between the first '[' and the first ']' after it.
RECURSIVE ClaimedEntries(_)
ClaimedEntries(lines) ==
    IF lines = <<>> THEN <<>>
    ELSE LET line == Head(lines)
             open == Find(line, "[")
             after == IF open = 0 THEN <<>> ELSE SubSeq(line, open + 1, Len(line))
             close == Find(after, "]")
         IN  IF /\ Contains(line, <<NEEDED>>) /\ Contains(line, <<SHLIB>>)
                /\ open # 0 /\ close # 0
             THEN <<SubSeq(after, 1, close - 1)>> \o ClaimedEntries(Tail(lines))
             ELSE ClaimedEntries(Tail(lines))

\* C7 (parsing precision): the parser never aborts, and when it returns it returns
\* Ok with, in line order and duplicates kept, the bracketed text of every line that
\* has both markers and a '[' followed by a ']'; every other line adds nothing.
C7_ParsingPrecision ==
    /\ pc # "parse_panicked"
    /\ pc = "parse_done" => ret = [tag |-> "Ok", val |-> ClaimedEntries(Lines(args.output))]

-----------------------------------------------------------------------------
(* get_library_dependencies                                                *)

Ok(v) == [tag |-> "Ok", val |-> v]
Err(e) == [tag |-> "Err", err |-> e]

NotAnElf == "Not an ELF file"
NotDynamic == "not a dynamic executable"
NotRecognized == "File format not recognized"

\* What `readelf -d` answers: the exit status and the two streams.
ToolOk(stdout) == [success |-> TRUE, stdout |-> stdout, stderr |-> <<>>]
ToolFail(stderr) == [success |-> FALSE, stdout |-> <<>>, stderr |-> stderr]

\* The dynamic section dump of an ELF file whose NEEDED entries are `needed`.
RECURSIVE NeededLines(_)
NeededLines(needed) ==
    IF needed = <<>> THEN <<>>
    ELSE <<" ", "0x01", " ", NEEDED, " ", SHLIB, " ", "[">> \o Head(needed)
         \o <<"]", "\n">> \o NeededLines(Tail(needed))

ElfDump(needed) ==
    <<"\n", "Dynamic section", "\n">> \o NeededLines(needed)
    \o <<" ", "0x0c", " ", "(INIT)", " ", "0x5000", "\n">>

\* The external tool on a file's data: an ELF file's data is its list of NEEDED
\* names, a text file is refused as not ELF, a damaged file fails otherwise, and
\* raw data carries the answer itself.
ReadelfOn(entry) ==
    IF entry.kind = "dir"
    THEN ToolFail(<<"readelf: Error: ", "is not an ordinary file", "\n">>)
    ELSE CASE entry.data.kind = "elf" -> ToolOk(ElfDump(entry.data.needed))
           [] entry.data.kind = "text" -> ToolFail(<<"readelf: Error: ", NotAnElf, "\n">>)
           [] entry.data.kind = "damaged" ->
                ToolFail(<<"readelf: Error: ", "Reading 64 bytes extends past end of file", "\n">>)
           [] entry.data.kind = "raw" -> entry.data.answer

Readelf(f, path) == ReadelfOn(f[Resolve(f, path)])

\* (mutant) a missing file taken for a file without dependencies
get_library_dependencies_lenient(f, binary_path, spawned) ==
    IF ~Exists(f, binary_path) THEN Ok(<<>>)
    ELSE IF ~spawned THEN Err([msg |-> "readelf command not found - install binutils"])
    ELSE LET output == Readelf(f, binary_path)
         IN  IF ~output.success
             THEN IF \/ Contains(output.stderr, <<NotAnElf>>)
                     \/ Contains(output.stderr, <<NotDynamic>>)
                     \/ Contains(output.stderr, <<NotRecognized>>)
                  THEN Ok(<<>>)
                  ELSE Err([msg |-> "readelf failed on", path |-> binary_path,
                            stderr |-> Trim(output.stderr)])
             ELSE parse_readelf_output(output.stdout)

\* `spawned` is whether Command::output() could launch readelf.
get_library_dependencies(f, binary_path, spawned) ==
    IF ~Exists(f, binary_path)
    THEN Err([msg |-> "File does not exist", path |-> binary_path])
    ELSE IF ~spawned THEN Err([msg |-> "readelf command not found - install binutils"])
    ELSE LET output == Readelf(f, binary_path)
         IN  IF ~output.success
             THEN IF \/ Contains(output.stderr, <<NotAnElf>>)
                     \/ Contains(output.stderr, <<NotDynamic>>)
                     \/ Contains(output.stderr, <<NotRecognized>>)
                  THEN Ok(<<>>)
                  ELSE Err([msg |-> "readelf failed on", path |-> binary_path,
                            stderr |-> Trim(output.stderr)])
             ELSE parse_readelf_output(output.stdout)

-----------------------------------------------------------------------------
(* get_all_dependencies                                                    *)

\* Vec::pop: the top is the last element.
Top(stack) == stack[Len(stack)]
PopKeep(stack) == stack
Pop(stack) == SubSeq(stack, 1, Len(stack) - 1)

\* The `?` on the extraction's result: an Err leaves the function at once.
QuestionMarkSwallow(r) == [leave |-> FALSE, val |-> IF r.tag = "Ok" THEN r.val ELSE <<>>]
QuestionMark(r) == [leave |-> r.tag # "Ok", val |-> IF r.tag = "Ok" THEN r.val ELSE <<>>]

\* The body of `for lib_name in deps`, on w = [all, stack].
VisitDepDirectOnly(f, w, lib_name, source_root, extra_lib_paths) ==
    IF lib_name \notin w.all
    THEN [all |-> w.all \cup {lib_name}, stack |-> w.stack]
    ELSE w

VisitDepResolvedOnly(f, w, lib_name, source_root, extra_lib_paths) ==
    LET lib_path == find_library(f, source_root, lib_name, extra_lib_paths)
    IN  IF lib_name \notin w.all /\ lib_path # None
        THEN [all |-> w.all \cup {lib_name}, stack |-> Append(w.stack, lib_path)]
        ELSE w

VisitDep(f, w, lib_name, source_root, extra_lib_paths) ==
    IF lib_name \notin w.all
    THEN LET lib_path == find_library(f, source_root, lib_name, extra_lib_paths)
         IN  [all |-> w.all \cup {lib_name},
              stack |-> IF lib_path # None THEN Append(w.stack, lib_path) ELSE w.stack]
    ELSE w

RECURSIVE VisitDeps(_, _, _, _, _)
VisitDeps(f, w, deps, source_root, extra_lib_paths) ==
    IF deps = <<>> THEN w
    ELSE VisitDeps(f, VisitDep(f, w, Head(deps), source_root, extra_lib_paths),
                   Tail(deps), source_root, extra_lib_paths)

\* let mut all_libs ..; let mut to_process = vec![binary_path]; let mut processed ..
GadBegin ==
    /\ pc = "gad_start"
    /\ all_libs' = {}
    /\ to_process' = <<args.binary_path>>
    /\ processed' = {}
    /\ pc' = "gad_loop"
    /\ UNCHANGED <<fs, args, ret, hist, rest, libs>>

\* One iteration of `while let Some(path) = to_process.pop()`.
GadStep(spawned) ==
    /\ pc = "gad_loop"
    /\ to_process # <<>>
    /\ LET path == Top(to_process)
           stack == Pop(to_process)
       IN  IF path \in processed
           THEN /\ to_process' = stack
                /\ UNCHANGED <<pc, ret, hist, all_libs, processed>>
           ELSE LET r == get_library_dependencies(fs, path, spawned)
                    q == QuestionMark(r)
                    w == VisitDeps(fs, [all |-> all_libs, stack |-> stack], q.val,
                                   args.source_root, args.extra_lib_paths)
                IN  /\ processed' = processed \cup {path}
                    /\ hist' = Append(hist, [path |-> path, spawned |-> spawned, res |-> r])
                    /\ IF q.leave
                       THEN /\ pc' = "gad_returned"
                            /\ ret' = r
                            /\ to_process' = stack
                            /\ UNCHANGED all_libs
                       ELSE /\ all_libs' = w.all
                            /\ to_process' = w.stack
                            /\ UNCHANGED <<pc, ret>>
    /\ UNCHANGED <<fs, args, rest, libs>>

\* Ok(all_libs)
GadReturn ==
    /\ pc = "gad_loop"
    /\ to_process = <<>>
    /\ pc' = "gad_returned"
    /\ ret' = Ok(all_libs)
    /\ UNCHANGED <<fs, args, hist, rest, libs, all_libs, to_process, processed>>

GadNext == GadBegin \/ (\E spawned \in BOOLEAN : GadStep(spawned)) \/ GadReturn

\* The source trees of the closure's specification: a root with the standard
\* directories and one extra directory, and in it a seed binary and two libraries,
\* each absent or present at its place as an ELF file with a list of NEEDED names,
\* a text file, a damaged file or (a library) a dangling symbolic link.  The seed
\* is the binary, or the first library itself.
MaxNeeded == 2

SourceRoot == AbsPath(<<"src">>)
ExtraDir == RelPath(<<"opt", "x">>)

LibA == <<"libA.so">>
LibB == <<"libB.so">>
LibNames == {LibA, LibB}

LibHome(name) ==
    CASE name = LibA -> Join(Join(SourceRoot, RelPath(<<"usr", "lib64">>)), name)
      [] name = LibB -> Join(Join(SourceRoot, ExtraDir), name)

AppPath == Join(Join(SourceRoot, RelPath(<<"usr", "bin">>)), <<"app">>)

SourceDirs ==
    { SourceRoot,
      Join(SourceRoot, RelPath(<<"usr">>)),
      Join(SourceRoot, RelPath(<<"usr", "bin">>)),
      Join(SourceRoot, RelPath(<<"usr", "lib64">>)),
      Join(SourceRoot, RelPath(<<"opt">>)),
      Join(SourceRoot, ExtraDir) }

NeededLists == StringsUpTo(LibNames, MaxNeeded)

Absent == [kind |-> "absent"]

BinaryEntries ==
    {FileEntry([kind |-> "elf", needed |-> l]) : l \in NeededLists}
    \cup {FileEntry([kind |-> "text"]), FileEntry([kind |-> "damaged"]), Absent}

LibraryEntries == BinaryEntries \cup {SymlinkEntry(<<"gone">>)}

TreeOf(app, lib) ==
    FsOf({<<d, DirEntry>> : d \in SourceDirs}
         \cup (IF app = Absent THEN {} ELSE {<<AppPath, app>>})
         \cup {<<LibHome(n), lib[n]>> : n \in {m \in LibNames : lib[m] # Absent}})

Init ==
    /\ \E seed \in {AppPath, LibHome(LibA)} :
       \E app \in (IF seed = AppPath THEN BinaryEntries ELSE {Absent}) :
       \E lib \in [LibNames -> LibraryEntries] :
          /\ fs = TreeOf(app, lib)
          /\ args = [source_root |-> SourceRoot, binary_path |-> seed,
                     extra_lib_paths |-> <<ExtraDir>>]
    /\ pc = "gad_start"
    /\ ret = NoRet
    /\ hist = <<>>
    /\ all_libs = {} /\ to_process = <<>> /\ processed = {}
    /\ rest = Unused /\ libs = Unused

Next == GadNext

Spec == Init /\ [][Next]_vars

\* The loop runs on while it can: the function is sequential code.
FairSpec == Spec /\ WF_vars(Next)

-----------------------------------------------------------------------------
(* The closure's claims                                                    *)

Range(q) == {q[i] : i \in 1..Len(q)}

\* The names the file at a path lists: the NEEDED entries of the ELF file it opens.
ListedBy(f, path) ==
    IF Exists(f, path) /\ f[Resolve(f, path)].kind = "file"
       /\ f[Resolve(f, path)].data.kind = "elf"
    THEN Range(f[Resolve(f, path)].data.needed)
    ELSE {}

Resolved(name) == find_library(fs, args.source_root, name, args.extra_lib_paths)

\* The names reachable from the seed by a chain of NEEDED edges, each continued
\* through the file find_library resolves the name to.
RECURSIVE ChainClosure(_)
ChainClosure(S) ==
    LET more == S \cup UNION {ListedBy(fs, Resolved(n)) : n \in S}
    IN  IF more = S THEN S ELSE ChainClosure(more)

Reachable == ChainClosure(ListedBy(fs, args.binary_path))

Returned == pc = "gad_returned"
NoExtractionFailed == \A i \in 1..Len(hist) : hist[i].res.tag = "Ok"

\* C1 (closure totality): when get_all_dependencies returns and no extraction has
\* failed, it returns Ok with exactly the set of names reachable from the seed by
\* chains of NEEDED edges: every reachable name is in it, as one element of the set
\* however many chains reach it (and whether or not the graph has a cycle).
C1_ClosureTotality ==
    (Returned /\ NoExtractionFailed) => ret = Ok(Reachable)

\* A seed that lists both libraries, the first of which lists the second: two
\* chains reach libB.so, and the graph is acyclic.
C1_Witness ==
    /\ Returned /\ ret = Ok({LibA, LibB})
    /\ args.binary_path = AppPath
    /\ ListedBy(fs, AppPath) = {LibA, LibB}
    /\ ListedBy(fs, Resolved(LibA)) = {LibB}
    /\ Resolved(LibB) # None /\ ListedBy(fs, Resolved(LibB)) = {}

\* A needs B and B needs A, started at A.
TwoNodeCycle ==
    /\ args.binary_path = LibHome(LibA)
    /\ ListedBy(fs, LibHome(LibA)) = {LibB}
    /\ Resolved(LibB) # None /\ ListedBy(fs, Resolved(LibB)) = {LibA}

\* C2 (cycle safety and termination): on every tree, cyclic or not,
\* get_all_dependencies eventually returns, with its worklist empty when it returns
\* Ok; on the two-node cycle started at A it returns (unless readelf could not be
\* launched) exactly {A, B}.
C2_CycleSafety ==
    /\ <>Returned
    /\ [](Returned /\ ret.tag = "Ok" => to_process = <<>>)
    /\ [](Returned /\ TwoNodeCycle /\ NoExtractionFailed => ret = Ok({LibA, LibB}))

C2_Witness == Returned /\ TwoNodeCycle /\ ret = Ok({LibA, LibB})

\* C3 (closure error propagation): an extraction that returned an error is the
\* last one made, and get_all_dependencies has returned that very error; it never
\* goes on, and never returns Ok, after a failed extraction.
C3_ErrorPropagation ==
    \A i \in 1..Len(hist) :
        hist[i].res.tag = "Err" => /\ i = Len(hist)
                                   /\ Returned
                                   /\ ret = hist[i].res

\* The extraction of a resolved library (not the seed) fails after names were
\* already collected.
C3_Witness ==
    /\ Returned /\ ret.tag = "Err"
    /\ Len(hist) >= 2 /\ hist[Len(hist)].path # args.binary_path
    /\ all_libs # {}

\* C4 (unresolvable dependency): every name an extracted file listed is in the
\* set, resolvable or not; the worklist holds only the seed and paths find_library
\* returned; and get_all_dependencies returns an error only when an extraction
\* failed, never because a name did not resolve.
C4_UnresolvableKept ==
    /\ \A i \in 1..Len(hist) :
          hist[i].res.tag = "Ok" => Range(hist[i].res.val) \subseteq all_libs
    /\ \A k \in 1..Len(to_process) :
          \/ to_process[k] = args.binary_path
          \/ \E n \in all_libs : Resolved(n) # None /\ to_process[k] = Resolved(n)
    /\ Returned => (ret.tag = "Ok" <=> NoExtractionFailed)
    /\ (Returned /\ ret.tag = "Ok") => ret.val = all_libs

\* An unresolvable name is in the returned set, and a library listed with it was
\* resolved and extracted.
C4_Witness ==
    /\ Returned /\ ret.tag = "Ok"
    /\ \E n \in ret.val : Resolved(n) = None
    /\ \E n \in ret.val : Resolved(n) # None /\ Resolved(n) \in processed

-----------------------------------------------------------------------------
(* The extractor's specification: one call of get_library_dependencies on  *)
(* a path that is missing, a dangling link, a directory, a file or a link  *)
(* to a file, with every answer readelf can give within the bounds.        *)

MaxStderrLen == 3
StderrAlphabet == {NotAnElf, NotDynamic, NotRecognized, "readelf: Error:", " ", "\n"}

ToolAnswers ==
    {ToolOk(ElfDump(l)) : l \in NeededLists}
    \cup {ToolFail(e) : e \in StringsUpTo(StderrAlphabet, MaxStderrLen)}

RealPath == Join(Join(SourceRoot, RelPath(<<"usr", "bin">>)), <<"app.real">>)

ExtractTrees ==
    LET dirs == {<<d, DirEntry>> : d \in SourceDirs}
    IN  {FsOf(dirs), FsOf(dirs \cup {<<AppPath, SymlinkEntry(<<"gone">>)>>}),
         FsOf(dirs \cup {<<AppPath, DirEntry>>})}
        \cup {FsOf(dirs \cup {<<AppPath, FileEntry([kind |-> "raw", answer |-> a])>>})
                : a \in ToolAnswers}
        \cup {FsOf(dirs \cup {<<AppPath, SymlinkEntry(<<"app.real">>)>>,
                              <<RealPath, FileEntry([kind |-> "raw", answer |-> a])>>})
                : a \in ToolAnswers}

ExtractInit ==
    /\ fs \in ExtractTrees
    /\ args = [binary_path |-> AppPath]
    /\ pc = "gld_start"
    /\ ret = NoRet
    /\ hist = <<>>
    /\ rest = Unused /\ libs = Unused
    /\ all_libs = Unused /\ to_process = Unused /\ processed = Unused

ExtractCall(spawned) ==
    /\ pc = "gld_start"
    /\ ret' = get_library_dependencies(fs, args.binary_path, spawned)
    /\ hist' = <<[spawned |-> spawned]>>
    /\ pc' = "gld_returned"
    /\ UNCHANGED <<fs, args, rest, libs, all_libs, to_process, processed>>

ExtractNext == \E spawned \in BOOLEAN : ExtractCall(spawned)

SpecExtract == ExtractInit /\ [][ExtractNext]_vars

HasSignature(stderr) ==
    \E i \in 1..Len(stderr) : stderr[i] \in {NotAnElf, NotDynamic, NotRecognized}

\* t is s without its leading and trailing whitespace.
IsTrimOf(t, s) ==
    /\ t = <<>> \/ (~IsWhitespace(t[1]) /\ ~IsWhitespace(t[Len(t)]))
    /\ \E a \in 0..Len(s) :
          /\ a + Len(t) <= Len(s)
          /\ SubSeq(s, a + 1, a + Len(t)) = t
          /\ \A i \in 1..Len(s) : (i <= a \/ i > a + Len(t)) => IsWhitespace(s[i])

\* C8 (error/empty distinction): a path that does not exist yields the error that
\* names it as nonexistent, never a list; for an existing path, a launch failure
\* yields its own error, a failure whose stderr holds one of the three not-ELF
\* signatures yields Ok with the empty list, and any other failure yields an error
\* with the trimmed stderr.
C8_ErrorEmptyDistinction ==
    pc = "gld_returned" =>
        LET p == args.binary_path
            spawned == hist[1].spawned
        IN  IF ~Exists(fs, p)
            THEN ret = Err([msg |-> "File does not exist", path |-> p])
            ELSE IF ~spawned
            THEN /\ ret.tag = "Err"
                 /\ ret.err.msg \notin {"File does not exist", "readelf failed on"}
            ELSE LET answer == Readelf(fs, p)
                 IN  ~answer.success =>
                        IF HasSignature(answer.stderr)
                        THEN ret = Ok(<<>>)
                        ELSE /\ ret.tag = "Err"
                             /\ ret.err.msg = "readelf failed on"
                             /\ ret.err.path = p
                             /\ IsTrimOf(ret.err.stderr, answer.stderr)

\* The path is a dangling link: an entry is there, and yet it does not exist.
C8_Witness ==
    /\ pc = "gld_returned"
    /\ IsSymlink(fs, args.binary_path) /\ ~Exists(fs, args.binary_path)
    /\ ret.tag = "Err" /\ ret.err.msg = "File does not exist"

-----------------------------------------------------------------------------
(* std::fs operations.  Each returns [ok, fs]: whether it succeeded and    *)
(* the file system it leaves.                                              *)

Done(f) == [ok |-> TRUE, fs |-> f]
Failed(f) == [ok |-> FALSE, fs |-> f]

Put(f, p, entry) == [q \in DOMAIN f \cup {p} |-> IF q = p THEN entry ELSE f[q]]
Remove(f, p) == [q \in DOMAIN f \ {p} |-> f[q]]

\* The path a write through p lands on: p, or where its chain of links ends,
\* whether or not a file is there yet; None for a loop of links.
RECURSIVE WritePathFrom(_, _, _)
WritePathFrom(f, p, seen) ==
    IF p \in seen THEN None
    ELSE IF p \in DOMAIN f /\ f[p].kind = "symlink"
         THEN WritePathFrom(f, Join(Parent(p), f[p].target), seen \cup {p})
         ELSE p

\* fs::copy: the source must open as a regular file; the destination is created,
\* or truncated and rewritten, through any link, and its directory must exist.
FsCopy(f, from, to) ==
    LET s == Resolve(f, from)
        t == WritePathFrom(f, to, {})
    IN  IF s = None \/ t = None THEN Failed(f)
        ELSE IF f[s].kind # "file" THEN Failed(f)
        ELSE IF t \in DOMAIN f
             THEN IF f[t].kind = "file" THEN Done(Put(f, t, f[s])) ELSE Failed(f)
             ELSE IF IsDir(f, Parent(t)) THEN Done(Put(f, t, f[s])) ELSE Failed(f)

\* fs::create_dir_all
RECURSIVE CreateDirAll(_, _)
CreateDirAll(f, p) ==
    IF IsDir(f, p) THEN Done(f)
    ELSE IF p \in DOMAIN f \/ p = <<Sep>> \/ p = <<>> THEN Failed(f)
    ELSE LET up == CreateDirAll(f, Parent(p))
         IN  IF up.ok THEN Done(Put(up.fs, p, DirEntry)) ELSE up

\* std::os::unix::fs::symlink: EEXIST when any entry, a dangling link too, has the name
FsSymlink(f, target, link) ==
    IF link \in DOMAIN f \/ ~IsDir(f, Parent(link)) THEN Failed(f)
    ELSE Done(Put(f, link, SymlinkEntry(target)))

\* fs::remove_file: unlinks a file or a link, not a directory
FsRemoveFile(f, p) ==
    IF p \notin DOMAIN f \/ f[p].kind = "dir" THEN Failed(f)
    ELSE Done(Remove(f, p))

-----------------------------------------------------------------------------
(* copy_library_to                                                         *)

\* private_lib_dirs.iter().find(|dir| src_str.contains("lib64/{dir}") || ..("lib/{dir}"))
PrivateDir(src_str, private_lib_dirs) ==
    LET hits == {i \in 1..Len(private_lib_dirs) :
                    \/ Contains(src_str, <<"lib64", Sep>> \o private_lib_dirs[i])
                    \/ Contains(src_str, <<"lib", Sep>> \o private_lib_dirs[i])}
    IN  IF hits = {} THEN None ELSE private_lib_dirs[Min(hits)]

\* What the function returns and leaves after a last std::fs step r.
Outcome(r, dest_path) ==
    [res |-> IF r.ok THEN Ok(<<>>) ELSE Err([msg |-> "io error"]),
     fs |-> r.fs, dest_path |-> dest_path]

\* let dest_path = if let Some(dir) = private_dir { .. } else if .. { .. } else { .. }
DestPath(a, src, dir) ==
    IF dir # None
    THEN Join(Join(Join(a.dest_root, a.dest_lib64_path), dir), a.lib_name)
    ELSE IF Contains(src, <<"lib64">>)
         THEN Join(Join(a.dest_root, a.dest_lib64_path), a.lib_name)
         ELSE Join(Join(a.dest_root, a.dest_lib_path), a.lib_name)

\* The actual file of a link: a relative target against the link's directory, an
\* absolute one against source_root.
ActualSrc(a, src, link_target) ==
    IF IsRelative(link_target)
    THEN Join(Parent(src), link_target)
    ELSE Join(a.source_root, TrimStartSep(link_target))

\* link_target.file_name().unwrap_or(link_target.as_os_str())
TargetName(link_target) ==
    IF FileName(link_target) # <<>> THEN FileName(link_target) ELSE link_target

\* if !dest_path.exists() { symlink(&link_target, &dest_path)? }
LinkAfterCopy(copied, link_target, dest_path) ==
    IF ~copied.ok THEN Outcome(copied, dest_path)
    ELSE IF ~Exists(copied.fs, dest_path)
         THEN Outcome(FsSymlink(copied.fs, link_target, dest_path), dest_path)
         ELSE Outcome(copied, dest_path)

\* if !target_dest.exists() { fs::copy(&actual_src, &target_dest)? }, then the link
CopyTargetAndLink(f, actual_src, link_target, dest_path, target_dest) ==
    LinkAfterCopy(IF ~Exists(f, target_dest) THEN FsCopy(f, actual_src, target_dest)
                  ELSE Done(f),
                  link_target, dest_path)

\* The branch `if src.is_symlink()`.
PlaceSymlink(f, a, src, dest_path, link_target) ==
    IF Exists(f, ActualSrc(a, src, link_target))
    THEN CopyTargetAndLink(f, ActualSrc(a, src, link_target), link_target, dest_path,
                           Join(Parent(dest_path), TargetName(link_target)))
    ELSE Outcome(FsCopy(f, src, dest_path), dest_path)

\* From `if dest_path.exists()` to the end.
PlaceAt(f, a, src, dest_path) ==
    IF Exists(f, dest_path) THEN Outcome(Done(f), dest_path)
    ELSE IF IsSymlink(f, src) THEN PlaceSymlink(f, a, src, dest_path, f[src].target)
    ELSE Outcome(FsCopy(f, src, dest_path), dest_path)

\* The private directory is created on demand, before the destination is looked at.
PlaceIn(made, a, src, dest_path) ==
    IF ~made.ok THEN Outcome(made, dest_path) ELSE PlaceAt(made.fs, a, src, dest_path)

\* The function after find_library has returned src: [res, fs, dest_path].
PlaceLibrary(f, a, src) ==
    LET dir == PrivateDir(src, a.private_lib_dirs)
    IN  PlaceIn(IF dir # None
                THEN CreateDirAll(f, Join(Join(a.dest_root, a.dest_lib64_path), dir))
                ELSE Done(f),
                a, src, DestPath(a, src, dir))

copy_library_to(f, a) ==
    LET src == find_library(f, a.source_root, a.lib_name, a.extra_lib_paths)
    IN  IF src = None
        THEN [res |-> Err([msg |-> "Could not find library", lib_name |-> a.lib_name]),
              fs |-> f, dest_path |-> None, src |-> None]
        ELSE LET o == PlaceLibrary(f, a, src)
             IN  [res |-> o.res, fs |-> o.fs, dest_path |-> o.dest_path, src |-> src]

\* The trees of the copier's specification.  The library libfoo.so is in up to
\* MaxCopies of the directories below (the six find_library searches, the extra
\* path and a private directory it does not search); one copy is a regular file,
\* a link to the plain name libfoo.so.1 or a link to the absolute path
\* /usr/lib64/libfoo.so.1, the others are regular files.  The link's target is
\* present or missing, in the source tree and on the host.  The destination is a
\* bare root, or has its two library directories, empty or with an older entry.
MaxCopies == 2
MaxCalls == 2

FooName == <<"libfoo.so">>
FooTarget == <<"libfoo.so.1">>
AbsTarget == AbsPath(<<"usr", "lib64", "libfoo.so.1">>)
DestRoot == AbsPath(<<"dst">>)
Lib64 == RelPath(<<"lib64">>)
Lib == RelPath(<<"lib">>)

PlaceDirs ==
    << RelPath(<<"usr", "lib64">>), RelPath(<<"lib64">>), RelPath(<<"usr", "lib">>),
       RelPath(<<"lib">>), RelPath(<<"usr", "lib64", "systemd">>),
       RelPath(<<"usr", "lib", "systemd">>), ExtraDir,
       RelPath(<<"usr", "lib64", "openrc">>) >>

\* A directory and the directories above it.
RECURSIVE Ancestors(_)
Ancestors(p) == IF p = <<Sep>> \/ p = <<>> THEN {<<Sep>>} ELSE {p} \cup Ancestors(Parent(p))

DirsOf(paths) == {<<d, DirEntry>> : d \in UNION {Ancestors(p) : p \in paths}}

CopySourceDirs == DirsOf({Join(SourceRoot, PlaceDirs[i]) : i \in 1..Len(PlaceDirs)})

\* The main copy at place i: the entries it adds.
MainCopies(i) ==
    LET here == Join(Join(SourceRoot, PlaceDirs[i]), FooName)
        beside == Join(Join(SourceRoot, PlaceDirs[i]), FooTarget)
        inTree == Join(SourceRoot, TrimStartSep(AbsTarget))
    IN  { {<<here, FileEntry("v0")>>},
          {<<here, SymlinkEntry(FooTarget)>>},
          {<<here, SymlinkEntry(FooTarget)>>, <<beside, FileEntry("v1")>>},
          {<<here, SymlinkEntry(AbsTarget)>>},
          {<<here, SymlinkEntry(AbsTarget)>>, <<inTree, FileEntry("v1")>>},
          {<<here, SymlinkEntry(AbsTarget)>>, <<AbsTarget, FileEntry("host")>>},
          {<<here, SymlinkEntry(AbsTarget)>>, <<inTree, FileEntry("v1")>>,
           <<AbsTarget, FileEntry("host")>>} }

CopySources ==
    {{}} \cup
    UNION { UNION { { m \cup {<<Join(Join(SourceRoot, PlaceDirs[j]), FooName),
                                FileEntry("other")>> : j \in others}
                      : m \in MainCopies(i) }
                    : others \in {o \in SUBSET ((1..Len(PlaceDirs)) \ {i}) :
                                     Cardinality(o) < MaxCopies} }
            : i \in 1..Len(PlaceDirs) }

DestLib64 == Join(DestRoot, Lib64)

CopyDests ==
    LET bare == {<<DestRoot, DirEntry>>}
        dirs == bare \cup {<<DestLib64, DirEntry>>, <<Join(DestRoot, Lib), DirEntry>>}
    IN  { bare, dirs,
          dirs \cup {<<Join(DestLib64, FooName), FileEntry("old")>>},
          dirs \cup {<<Join(DestLib64, FooName), SymlinkEntry(FooTarget)>>},
          dirs \cup {<<Join(DestLib64, FooTarget), FileEntry("old")>>} }

CopyLibInit ==
    /\ \E src \in CopySources, dst \in CopyDests :
          fs = FsOf(CopySourceDirs \cup DirsOf({Parent(AbsTarget)}) \cup src \cup dst)
    /\ \E extra \in {<<>>, <<ExtraDir>>},
          private \in {<<>>, <<(<<"systemd">>)>>, <<(<<"openrc">>)>>} :
          args = [source_root |-> SourceRoot, lib_name |-> FooName,
                  dest_root |-> DestRoot, dest_lib64_path |-> Lib64,
                  dest_lib_path |-> Lib, extra_lib_paths |-> extra,
                  private_lib_dirs |-> private]
    /\ pc = "clt_ready"
    /\ ret = NoRet
    /\ hist = <<>>
    /\ rest = Unused /\ libs = Unused
    /\ all_libs = Unused /\ to_process = Unused /\ processed = Unused

\* One call of copy_library_to, with the same arguments as the calls before it.
CopyLibCall ==
    /\ pc = "clt_ready"
    /\ Len(hist) < MaxCalls
    /\ LET o == copy_library_to(fs, args)
       IN  /\ fs' = o.fs
           /\ ret' = o.res
           /\ hist' = Append(hist, [res |-> o.res, src |-> o.src, dest_path |-> o.dest_path,
                                    before |-> fs, after |-> o.fs])
    /\ UNCHANGED <<pc, args, rest, libs, all_libs, to_process, processed>>

CopyLibNext == CopyLibCall

SpecCopyLib == CopyLibInit /\ [][CopyLibNext]_vars

-----------------------------------------------------------------------------
(* The copier's claims                                                     *)

\* C5 (placement idempotence), as claimed: when the first call succeeds, the
\* second call with the same arguments succeeds too and leaves the file system as
\* the first call left it.
C5_PlacementIdempotence ==
    (Len(hist) >= 2 /\ hist[1].res.tag = "Ok")
        => (hist[2].res.tag = "Ok" /\ hist[2].after = hist[1].after)

\* The link's actual file, as the claim resolves it.
ClaimedActual(h) ==
    LET t == h.before[h.src].target
    IN  IF IsAbsolute(t) THEN Join(args.source_root, TrimStartSep(t))
        ELSE Join(Parent(h.src), t)

\* C6 (symlink relocation), as claimed, for a call that found the destination
\* holding neither name: when the resolved library is a link whose target exists in
\* the source tree and the call succeeds, the destination directory holds the
\* target's file name as a regular file with the source's content and the library
\* name as a link to exactly that file name, never to an absolute path.
C6_SymlinkRelocation ==
    \A k \in 1..Len(hist) :
        LET h == hist[k]
            placed == Join(Parent(h.dest_path), FileName(h.before[h.src].target))
        IN  ( /\ h.res.tag = "Ok"
              /\ IsSymlink(h.before, h.src)
              /\ Exists(h.before, ClaimedActual(h))
              /\ h.dest_path \notin DOMAIN h.before
              /\ placed \notin DOMAIN h.before )
            => /\ placed \in DOMAIN h.after
               /\ h.after[placed] = h.before[Resolve(h.before, ClaimedActual(h))]
               /\ IsSymlink(h.after, h.dest_path)
               /\ h.after[h.dest_path].target = FileName(h.before[h.src].target)
               /\ ~IsAbsolute(h.after[h.dest_path].target)

\* The place a name has in a directory of the source tree, and whether any entry
\* (file, directory or link, dangling or not) is there.
PlaceOf(dir) == Join(Join(args.source_root, dir), args.lib_name)
Occupied(f, dir) == PlaceOf(dir) \in DOMAIN f

StandardPlaces ==
    << RelPath(<<"usr", "lib64">>), RelPath(<<"lib64">>),
       RelPath(<<"usr", "lib">>), RelPath(<<"lib">>) >>

RECURSIVE PrivatePlaces(_)
PrivatePlaces(dirs) ==
    IF dirs = <<>> THEN <<>>
    ELSE << RelPath(<<"usr", "lib64">>) \o <<Sep>> \o Head(dirs),
            RelPath(<<"usr", "lib">>) \o <<Sep>> \o Head(dirs) >> \o PrivatePlaces(Tail(dirs))

\* src is the first occupied place of an order, or None when none is occupied.
FirstOccupied(f, order, src) ==
    IF \A i \in 1..Len(order) : ~Occupied(f, order[i])
    THEN src = None
    ELSE \E i \in 1..Len(order) :
            /\ Occupied(f, order[i])
            /\ \A j \in 1..(i - 1) : ~Occupied(f, order[j])
            /\ src = PlaceOf(order[i])

\* C9 (library search order), as claimed, the declared private subsystems being the
\* private_lib_dirs of the call: the four standard places, the two private places
\* of each declared subsystem, then the extra paths.
C9_SearchOrderAsClaimed ==
    \A k \in 1..Len(hist) :
        FirstOccupied(hist[k].before,
                      StandardPlaces \o PrivatePlaces(args.private_lib_dirs)
                          \o args.extra_lib_paths,
                      hist[k].src)

\* C9 (amended): find_library returns the first occupied place in the order
\* usr/lib64, lib64, usr/lib, lib, usr/lib64/systemd, usr/lib/systemd, then the
\* extra paths in the order given, whatever private directories the caller
\* declares; a standard place wins over an extra path, and the result is None when
\* no place is occupied.
C9_SearchOrder ==
    \A k \in 1..Len(hist) :
        /\ FirstOccupied(hist[k].before,
                         StandardPlaces \o PrivatePlaces(<< <<"systemd">> >>)
                             \o args.extra_lib_paths,
                         hist[k].src)
        /\ \A e \in 1..Len(args.extra_lib_paths) :
              (hist[k].src = PlaceOf(args.extra_lib_paths[e]))
                  => \A i \in 1..Len(StandardPlaces) :
                        ~Occupied(hist[k].before, StandardPlaces[i])

\* The library is in the extra path and in usr/lib/systemd, and the private place,
\* searched before the extra path, is what find_library returned.
C9_Witness ==
    /\ Len(hist) >= 1
    /\ args.extra_lib_paths = <<ExtraDir>>
    /\ Occupied(hist[1].before, ExtraDir)
    /\ hist[1].src = PlaceOf(RelPath(<<"usr", "lib", "systemd">>))

-----------------------------------------------------------------------------
(* copy_dir_recursive and copy_dir_recursive_overwrite.  A directory path  *)
(* is followed to the directory its links lead to before its entries are   *)
(* named, as the OS does when it opens src.join(name).  File data is a     *)
(* sequence of bytes, so that metadata's len is its length.                *)

\* fs::read_dir(src): the names in the directory, in the order the OS lists them
ReadDir(f, src, order) ==
    SelectSeq(order, LAMBDA n : Join(src, <<n>>) \in DOMAIN f)

\* The result of one entry of the loop: whether `?` let it pass, the file system
\* it leaves and the bytes it adds to total_size.
EntryResult(ok, f, size) == [ok |-> ok, fs |-> f, size |-> size]

\* } else if path.is_symlink() { .. }
CopySymlink(f, path, dest_path, overwrite) ==
    LET target == f[path].target
        removed == IF overwrite /\ (Exists(f, dest_path) \/ IsSymlink(f, dest_path))
                   THEN FsRemoveFile(f, dest_path)
                   ELSE Done(f)
    IN  IF ~removed.ok THEN EntryResult(FALSE, removed.fs, 0)
        ELSE IF ~Exists(removed.fs, dest_path) /\ ~IsSymlink(removed.fs, dest_path)
             THEN EntryResult(FsSymlink(removed.fs, target, dest_path).ok,
                              FsSymlink(removed.fs, target, dest_path).fs, 0)
             ELSE EntryResult(TRUE, removed.fs, 0)

\* } else { fs::copy(&path, &dest_path)?; if let Ok(meta) = fs::metadata(..) { .. } }
CopyFile(f, path, dest_path) ==
    LET copied == FsCopy(f, path, dest_path)
    IN  IF ~copied.ok THEN EntryResult(FALSE, copied.fs, 0)
        ELSE IF Exists(copied.fs, dest_path)
             THEN EntryResult(TRUE, copied.fs,
                              Len(copied.fs[Resolve(copied.fs, dest_path)].data))
             ELSE EntryResult(TRUE, copied.fs, 0)

RECURSIVE copy_dir_recursive_impl(_, _, _, _, _)
RECURSIVE CopyEntries(_, _, _, _, _, _, _)

\* The recursive call of the loop, as an entry's result
CopySubdir(f, path, dest_path, overwrite, order) ==
    LET r == copy_dir_recursive_impl(f, path, dest_path, overwrite, order)
    IN  IF r.res.tag = "Ok" THEN EntryResult(TRUE, r.fs, r.res.val)
        ELSE EntryResult(FALSE, r.fs, 0)

\* The body of the loop: is_dir is asked first, and follows links
CopyEntry(f, path, dest_path, overwrite, order) ==
    IF IsDir(f, path) THEN CopySubdir(f, path, dest_path, overwrite, order)
    ELSE IF IsSymlink(f, path) THEN CopySymlink(f, path, dest_path, overwrite)
    ELSE CopyFile(f, path, dest_path)

\* for entry in fs::read_dir(src)? { .. } Ok(total_size)
CopyEntries(f, src, dst, names, overwrite, order, total_size) ==
    IF names = <<>> THEN [res |-> Ok(total_size), fs |-> f]
    ELSE LET e == CopyEntry(f, Join(src, <<Head(names)>>), Join(dst, <<Head(names)>>),
                            overwrite, order)
         IN  IF ~e.ok THEN [res |-> Err([msg |-> "io error"]), fs |-> e.fs]
             ELSE CopyEntries(e.fs, src, dst, Tail(names), overwrite, order,
                              total_size + e.size)

copy_dir_recursive_impl(f, src, dst, overwrite, order) ==
    IF ~IsDir(f, src) THEN [res |-> Ok(0), fs |-> f]
    ELSE LET made == CreateDirAll(f, dst)
         IN  IF ~made.ok THEN [res |-> Err([msg |-> "io error"]), fs |-> made.fs]
             ELSE CopyEntries(made.fs, Resolve(made.fs, src), Resolve(made.fs, dst),
                              ReadDir(made.fs, Resolve(made.fs, src), order),
                              overwrite, order, 0)

copy_dir_recursive(f, src, dst, order) ==
    copy_dir_recursive_impl(f, src, dst, FALSE, order)

copy_dir_recursive_overwrite(f, src, dst, order) ==
    copy_dir_recursive_impl(f, src, dst, TRUE, order)

-----------------------------------------------------------------------------
(* The tree copier's specification: one call of either entry point on a    *)
(* source directory and a destination that hold, under the names lnk, f    *)
(* and d, nothing, a file, a directory or a link (to a file, to a          *)
(* directory, to nothing).                                                 *)

EntryNames == {"lnk", "f", "d"}

\* The orders read_dir may list the names in
Orders ==
    {o \in [1..Cardinality(EntryNames) -> EntryNames] :
        \A i, j \in DOMAIN o : i # j => o[i] # o[j]}

TreeSrc == AbsPath(<<"src">>)
TreeDst == AbsPath(<<"dst">>)

LnkEntries(root, data) ==
    { {},
      {<<Join(root, <<"lnk">>), SymlinkEntry(<<"f">>)>>},
      {<<Join(root, <<"lnk">>), SymlinkEntry(<<"gone">>)>>},
      {<<Join(root, <<"lnk">>), SymlinkEntry(<<"d">>)>>},
      {<<Join(root, <<"lnk">>), FileEntry(data)>>} }

FEntries(root, data) ==
    { {}, {<<Join(root, <<"f">>), FileEntry(data)>>} }

DEntries(root, data) ==
    { {},
      {<<Join(root, <<"d">>), DirEntry>>},
      {<<Join(root, <<"d">>), DirEntry>>,
       <<Join(Join(root, <<"d">>), <<"f">>), FileEntry(data \o data)>>} }

TreeSources ==
    {{}} \cup
    { {<<TreeSrc, DirEntry>>} \cup l \cup e \cup d :
        l \in LnkEntries(TreeSrc, <<"n">>), e \in FEntries(TreeSrc, <<"n">>),
        d \in DEntries(TreeSrc, <<"n">>) }

TreeDests ==
    {{}} \cup
    { {<<TreeDst, DirEntry>>} \cup l \cup e \cup d :
        l \in LnkEntries(TreeDst, <<"o", "o", "o">>)
                 \cup {{<<Join(TreeDst, <<"lnk">>), DirEntry>>}},
        e \in FEntries(TreeDst, <<"o", "o", "o">>),
        d \in { {}, {<<Join(TreeDst, <<"d">>), DirEntry>>} } }

CopyDirInit ==
    /\ \E s \in TreeSources, d \in TreeDests :
          fs = FsOf({<<AbsPath(<<>>), DirEntry>>} \cup s \cup d)
    /\ args = [src |-> TreeSrc, dst |-> TreeDst]
    /\ pc = "cdr_ready"
    /\ ret = NoRet
    /\ hist = <<>>
    /\ rest = Unused /\ libs = Unused /\ all_libs = Unused
    /\ to_process = Unused /\ processed = Unused

CopyDirReturn(overwrite, o) ==
    /\ fs' = o.fs
    /\ ret' = o.res
    /\ pc' = "cdr_returned"
    /\ hist' = Append(hist, [overwrite |-> overwrite, res |-> o.res,
                             before |-> fs, after |-> o.fs])
    /\ UNCHANGED <<args, rest, libs, all_libs, to_process, processed>>

CopyDirPreserve ==
    /\ pc = "cdr_ready"
    /\ \E order \in Orders :
          CopyDirReturn(FALSE, copy_dir_recursive(fs, args.src, args.dst, order))

CopyDirOverwrite ==
    /\ pc = "cdr_ready"
    /\ \E order \in Orders :
          CopyDirReturn(TRUE, copy_dir_recursive_overwrite(fs, args.src, args.dst, order))

CopyDirNext == CopyDirPreserve \/ CopyDirOverwrite

SpecCopyDir == CopyDirInit /\ [][CopyDirNext]_vars

\* C10 (copyTree symlink policy), as claimed, for the calls that succeed: for every
\* source entry that is a link, the preserving copy leaves a file or link that
\* already has the name in the destination as it was and creates the link when
\* nothing has the name; the overwriting copy leaves a link with the source link's
\* target under the name.
C10_SymlinkPolicy ==
    \A k \in 1..Len(hist) : \A n \in EntryNames :
        LET h == hist[k]
            s == Join(args.src, <<n>>)
            d == Join(args.dst, <<n>>)
        IN  (h.res.tag = "Ok" /\ IsSymlink(h.before, s))
            => IF h.overwrite
               THEN IsSymlink(h.after, d) /\ h.after[d].target = h.before[s].target
               ELSE IF d \in DOMAIN h.before
                    THEN h.before[d].kind \in {"file", "symlink"}
                            => (d \in DOMAIN h.after /\ h.after[d] = h.before[d])
                    ELSE d \in DOMAIN h.after
                         /\ h.after[d] = SymlinkEntry(h.before[s].target)

-----------------------------------------------------------------------------
(* create_symlink_if_missing                                               *)

\* (mutant) only link.exists() is asked, so a dangling link passes for a free name
create_symlink_if_missing_exists_only(f, target, link) ==
    IF Exists(f, link) THEN [res |-> Ok(FALSE), fs |-> f]
    ELSE IF FsSymlink(f, target, link).ok
         THEN [res |-> Ok(TRUE), fs |-> FsSymlink(f, target, link).fs]
         ELSE [res |-> Err([msg |-> "Failed to create symlink"]), fs |-> f]

create_symlink_if_missing(f, target, link) ==
    IF Exists(f, link) \/ IsSymlink(f, link) THEN [res |-> Ok(FALSE), fs |-> f]
    ELSE IF FsSymlink(f, target, link).ok
         THEN [res |-> Ok(TRUE), fs |-> FsSymlink(f, target, link).fs]
         ELSE [res |-> Err([msg |-> "Failed to create symlink"]), fs |-> f]

-----------------------------------------------------------------------------
(* The link maker's specification: up to MaxLinkCalls calls on one link    *)
(* path, each with a target of its own, on a file system where the path    *)
(* is free (with or without a directory to hold it) or taken by a file, a  *)
(* directory, a link to a file, a dangling link or a link to itself.       *)

MaxLinkCalls == 3

LinkDir == AbsPath(<<"etc">>)
LinkPath == Join(LinkDir, <<"link">>)

LinkTargets == { <<"target">>, <<"other">>, AbsPath(<<"etc", "target">>) }

LinkTrees ==
    LET root == {<<AbsPath(<<>>), DirEntry>>}
        dir == root \cup {<<LinkDir, DirEntry>>}
    IN  { root,
          root \cup {<<LinkDir, FileEntry("v0")>>},
          dir,
          dir \cup {<<Join(LinkDir, <<"target">>), FileEntry("v0")>>},
          dir \cup {<<LinkPath, FileEntry("v0")>>},
          dir \cup {<<LinkPath, DirEntry>>},
          dir \cup {<<LinkPath, SymlinkEntry(<<"target">>)>>},
          dir \cup {<<LinkPath, SymlinkEntry(<<"target">>)>>,
                    <<Join(LinkDir, <<"target">>), FileEntry("v0")>>},
          dir \cup {<<LinkPath, SymlinkEntry(<<"link">>)>>} }

LinkInit ==
    /\ \E t \in LinkTrees : fs = FsOf(t)
    /\ args = [link |-> LinkPath]
    /\ pc = "csim_ready"
    /\ ret = NoRet
    /\ hist = <<>>
    /\ rest = Unused /\ libs = Unused /\ all_libs = Unused
    /\ to_process = Unused /\ processed = Unused

LinkCall ==
    /\ pc = "csim_ready"
    /\ Len(hist) < MaxLinkCalls
    /\ \E target \in LinkTargets :
          LET o == create_symlink_if_missing(fs, target, args.link)
          IN  /\ fs' = o.fs
              /\ ret' = o.res
              /\ hist' = Append(hist, [target |-> target, res |-> o.res,
                                       before |-> fs, after |-> o.fs])
    /\ UNCHANGED <<pc, args, rest, libs, all_libs, to_process, processed>>

LinkNext == LinkCall

SpecLink == LinkInit /\ [][LinkNext]_vars

\* Some entry of any kind, a dangling link too, has the link path as its name.
LinkOccupied(f) == args.link \in DOMAIN f

\* At most the first call returned true, and after it the link has its target.
FirstCallWins ==
    /\ \A k \in 2..Len(hist) : hist[k].res # Ok(TRUE)
    /\ (Len(hist) >= 1 /\ hist[1].res = Ok(TRUE))
          => \A k \in 1..Len(hist) :
                hist[k].after[args.link] = SymlinkEntry(hist[1].target)

\* C11, as claimed: a call creates the link and returns true exactly when nothing
\* occupies the link path, otherwise it returns false and changes nothing; at most
\* the first call of a sequence returns true and the link keeps its target.
C11_CreateIfMissingAsClaimed ==
    /\ \A k \in 1..Len(hist) :
          IF LinkOccupied(hist[k].before)
          THEN hist[k].res = Ok(FALSE) /\ hist[k].after = hist[k].before
          ELSE /\ hist[k].res = Ok(TRUE)
               /\ hist[k].after = Put(hist[k].before, args.link,
                                      SymlinkEntry(hist[k].target))
    /\ FirstCallWins

\* C11 (amended): when the directory that is to hold the link exists, a call
\* creates the link and returns true exactly when nothing occupies the link path,
\* otherwise it returns false and changes nothing; when that directory does not
\* exist the call returns an error and creates nothing; at most the first call of a
\* sequence returns true and the link keeps the target of that call.
C11_CreateIfMissing ==
    /\ \A k \in 1..Len(hist) :
          IF LinkOccupied(hist[k].before)
          THEN hist[k].res = Ok(FALSE) /\ hist[k].after = hist[k].before
          ELSE IF IsDir(hist[k].before, Parent(args.link))
               THEN /\ hist[k].res = Ok(TRUE)
                    /\ hist[k].after = Put(hist[k].before, args.link,
                                           SymlinkEntry(hist[k].target))
               ELSE /\ hist[k].res.tag = "Err"
                    /\ hist[k].after = hist[k].before
    /\ FirstCallWins

\* The first call made the link, and a later call with another target returned
\* false and left the first target in place.
C11_Witness ==
    /\ Len(hist) >= 2
    /\ hist[1].res = Ok(TRUE)
    /\ hist[2].target # hist[1].target
    /\ hist[2].res = Ok(FALSE)
    /\ fs[args.link] = SymlinkEntry(hist[1].target)

-----------------------------------------------------------------------------
(* The placement specification: copy_library_to on one regular file, where *)
(* the text of source_root and of the library's name varies.  A segment of *)
(* a path may be several symbols long: the name systemd.so is the symbols  *)
(* "systemd", ".so", and liblib64.so is "lib", "lib64", ".so".             *)

PlaceRoots ==
    { SourceRoot, AbsPath(<<"srv", "lib64", "root">>), AbsPath(<<"var", "lib", "openrc">>) }

PlaceNames == { FooName, <<"systemd", ".so">>, <<"lib", "lib64", ".so">> }

OpenrcDir == RelPath(<<"usr", "lib64", "openrc">>)

PlaceTree(root, name, i) ==
    DirsOf({Join(root, PlaceDirs[j]) : j \in 1..Len(PlaceDirs)})
    \cup {<<Join(Join(root, PlaceDirs[i]), name), FileEntry("v0")>>}
    \cup {<<DestRoot, DirEntry>>, <<DestLib64, DirEntry>>, <<Join(DestRoot, Lib), DirEntry>>}

PlaceInit ==
    /\ \E root \in PlaceRoots, name \in PlaceNames, i \in 1..Len(PlaceDirs),
          extra \in {<<>>, <<ExtraDir, OpenrcDir>>},
          private \in {<<>>, <<(<<"systemd">>)>>, <<(<<"openrc">>)>>,
                       <<(<<"systemd">>), (<<"openrc">>)>>} :
          /\ fs = FsOf(PlaceTree(root, name, i))
          /\ args = [source_root |-> root, lib_name |-> name,
                     dest_root |-> DestRoot, dest_lib64_path |-> Lib64,
                     dest_lib_path |-> Lib, extra_lib_paths |-> extra,
                     private_lib_dirs |-> private]
    /\ pc = "clt_ready"
    /\ ret = NoRet
    /\ hist = <<>>
    /\ rest = Unused /\ libs = Unused
    /\ all_libs = Unused /\ to_process = Unused /\ processed = Unused

SpecPlace == PlaceInit /\ [][CopyLibNext]_vars

\* The segments of a path, each a sequence of symbols.
RECURSIVE Segments(_)
Segments(p) ==
    IF p = <<>> THEN <<>>
    ELSE IF Find(p, Sep) = 0 THEN <<p>>
    ELSE IF Find(p, Sep) = 1 THEN Segments(Tail(p))
    ELSE <<SubSeq(p, 1, Find(p, Sep) - 1)>> \o Segments(SubSeq(p, Find(p, Sep) + 1, Len(p)))

\* The directories from source_root down to the one that holds src.
HoldingDirs(a, src) ==
    SubSeq(Segments(Parent(src)), Len(Segments(a.source_root)) + 1,
           Len(Segments(Parent(src))))

\* The private subdirectory the claim places src by: the directory holding src,
\* when it is declared and directly under lib64 or lib; None otherwise.
ClaimedPrivate(a, src) ==
    LET dirs == HoldingDirs(a, src)
        n == Len(dirs)
    IN  IF /\ n >= 2
           /\ \E k \in 1..Len(a.private_lib_dirs) : a.private_lib_dirs[k] = dirs[n]
           /\ dirs[n - 1] \in {<<"lib64">>, <<"lib">>}
        THEN dirs[n]
        ELSE None

\* The destination the claim gives src.
ClaimedDest(a, src) ==
    IF ClaimedPrivate(a, src) # None
    THEN Join(Join(Join(a.dest_root, a.dest_lib64_path), ClaimedPrivate(a, src)), a.lib_name)
    ELSE IF \E i \in 1..Len(HoldingDirs(a, src)) : HoldingDirs(a, src)[i] = <<"lib64">>
         THEN Join(Join(a.dest_root, a.dest_lib64_path), a.lib_name)
         ELSE Join(Join(a.dest_root, a.dest_lib_path), a.lib_name)

\* C12 (placement decision), as claimed: the library is placed in the private
\* subdirectory <dest_lib64_path>/<dir> if and only if the directory holding the
\* resolved source is a declared private subdirectory dir directly under lib64 or
\* lib; otherwise in <dest_lib64_path> when a directory of the source path below
\* source_root is lib64 and in <dest_lib_path> when none is, whatever the text of
\* source_root and of the library's name.
C12_PlacementDecision ==
    \A k \in 1..Len(hist) :
        hist[k].src # None => hist[k].dest_path = ClaimedDest(args, hist[k].src)

====
